---------------------------- MODULE Spec2Model ----------------------------
(***************************************************************************)
(* A model of src/app.py, the Streamlit explorer of the Epstein files      *)
(* database: the keyword indexer of the sidebar, the full-text search of   *)
(* tab 5, the relationship graph of tab 7 and the order in which one       *)
(* script run renders its tabs.                                            *)
(*                                                                         *)
(* Texts are sequences of one-character strings.  All sessions share the   *)
(* one connection get_db() caches, so the store has two layers: what the   *)
(* connection sees (its open transaction included) and what is durable.    *)
(***************************************************************************)
EXTENDS Integers, Sequences, FiniteSets, TLC

VARIABLES
    text_cache,       \* file id -> extracted text, for the files that have a row
    corpus_version,   \* how many times the ingestion pipeline rewrote text_cache
    search_results,   \* the table as the shared connection sees it
    durable,          \* the table as last committed
    in_txn,           \* the connection holds an open (implicit) transaction
    sess,             \* per session: the position in "Search & Add to Database"
    before,           \* history: per session, the table when its run started
    hist,             \* history: the last two completed runs of session 1
    search,           \* the full-text search of tab 5: cursor, hits, status labels
    tables,           \* which of the optional tables exist in the database
    entities,         \* the rows of the entities table
    entity_cooccurrence,  \* the rows of the entity_cooccurrence table
    graph_file,       \* the content of output/entity_graph.html
    gsess,            \* per session: the relationship graph of tab 7
    run,              \* one run of the script: the section reached, what was drawn
    scan_order,       \* the file ids of text_cache in the order a scan visits its rows
    registry,         \* the lines of custom_keywords.txt
    processor         \* epstein_processor.py: whether it imports, its DEFAULT_KEYWORDS

vars == <<text_cache, corpus_version, search_results, durable, in_txn, sess,
          before, hist, search, tables, entities, entity_cooccurrence,
          graph_file, gsess, run, scan_order, registry, processor>>

storeVars == <<scan_order, registry, processor>>

graphVars == <<tables, entities, entity_cooccurrence, graph_file, gsess>>

---------------------------------------------------------------------------
(* Bounds of the model *)

NumFiles == 2
MaxIngest == 1
MaxRuns == 2
MaxTextLen == 3
MaxKwLen == 2
MaxTermLen == 2
MaxSearchFiles == 203
MaxFill == 21
MaxSliderSteps == 1
MaxKeywords == 31
MaxOver == 1
SharedFillers == 1
MaxVipFiles == 21

Sessions == {1, 2}
Files == 1..NumFiles

---------------------------------------------------------------------------
(* Characters and strings *)

NL == "\n"
SP == " "

Max(a, b) == IF a >= b THEN a ELSE b
Min(a, b) == IF a <= b THEN a ELSE b

\* str.lower() on the characters of the model
lower(c) == CASE c = "A" -> "a" [] c = "B" -> "b" [] c = "T" -> "t" [] OTHER -> c

isspace(c) == c \in {SP, NL}

\* text[i:j] of Python, 0-based, end exclusive, on a 1-based sequence
slice(text, i, j) == SubSeq(text, i + 1, j)

RECURSIVE lstrip(_)
lstrip(s) == IF s # <<>> /\ isspace(Head(s)) THEN lstrip(Tail(s)) ELSE s

RECURSIVE rstrip(_)
rstrip(s) ==
    IF s # <<>> /\ isspace(s[Len(s)]) THEN rstrip(SubSeq(s, 1, Len(s) - 1)) ELSE s

strip(s) == rstrip(lstrip(s))

\* s.split('\n'): the pieces between newlines, empty pieces kept
RECURSIVE split_nl(_, _)
split_nl(s, cur) ==
    IF s = <<>> THEN <<cur>>
    ELSE IF Head(s) = NL THEN <<cur>> \o split_nl(Tail(s), <<>>)
    ELSE split_nl(Tail(s), Append(cur, Head(s)))

\* the least element of a non-empty set of numbers
Least(S) == CHOOSE x \in S : \A y \in S : x <= y

\* s.split(): the maximal runs of non-whitespace, read from 1-based
\* position i on, one word per step
RECURSIVE split_ws(_, _)
split_ws(s, i) ==
    LET starts == {p \in i..Len(s) : ~isspace(s[p])}
    IN IF starts = {} THEN <<>>
       ELSE LET first == Least(starts)
                stops == {p \in first..Len(s) : isspace(s[p])}
                last == IF stops = {} THEN Len(s) ELSE Least(stops) - 1
            IN <<SubSeq(s, first, last)>> \o split_ws(s, last + 1)

\* ' '.join(words)
RECURSIVE join_sp(_)
join_sp(words) ==
    IF words = <<>> THEN <<>>
    ELSE IF Len(words) = 1 THEN words[1]
    ELSE words[1] \o <<SP>> \o join_sp(Tail(words))

---------------------------------------------------------------------------
(* re.compile(re.escape(kw), re.IGNORECASE) and pattern.finditer(text) *)

\* the characters re.escape puts a backslash before (those of the model)
SpecialChars == {".", SP, NL}

\* a compile without re.escape: every character bare
re_escape_none(kw) ==
    [i \in 1..Len(kw) |-> [ch |-> kw[i], esc |-> FALSE]]

\* re.escape(kw): one token per character, escaped or bare
re_escape(kw) ==
    [i \in 1..Len(kw) |-> [ch |-> kw[i], esc |-> kw[i] \in SpecialChars]]

\* one token of a compiled pattern against one character, under IGNORECASE:
\* an escaped token is the literal character, a bare "." is any character
\* but a newline, any other bare character is itself
TokMatch(tok, c) ==
    IF ~tok.esc /\ tok.ch = "." THEN c # NL
    ELSE lower(tok.ch) = lower(c)

\* the pattern matches text at 0-based offset i
MatchAt(pat, text, i) ==
    /\ i + Len(pat) <= Len(text)
    /\ \A j \in 1..Len(pat) : TokMatch(pat[j], text[i + j])

\* the 0-based start offsets finditer yields: leftmost first, the scan
\* resuming at the end of each match (pat is never empty)
RECURSIVE finditer(_, _, _)
finditer(pat, text, i) ==
    LET found == {p \in i..(Len(text) - Len(pat)) : MatchAt(pat, text, p)}
    IN IF found = {} THEN <<>>
       ELSE <<Least(found)>> \o finditer(pat, text, Least(found) + Len(pat))


---------------------------------------------------------------------------
(* The keyword indexer: sidebar, "Search & Add to Database" *)

\* keywords = [k.strip() for k in new_keywords.strip().split('\n') if k.strip()]
parse_keywords(new_keywords) ==
    LET lines == split_nl(strip(new_keywords), <<>>)
        stripped == [i \in 1..Len(lines) |-> strip(lines[i])]
    IN SelectSeq(stripped, LAMBDA k : k # <<>>)

\* the keys of the dict {kw: re.compile(...) for kw in keywords}: each keyword
\* once, in the order of its first occurrence
RECURSIVE dict_keys(_)
dict_keys(keywords) ==
    IF keywords = <<>> THEN <<>>
    ELSE LET front == SubSeq(keywords, 1, Len(keywords) - 1)
             kw == keywords[Len(keywords)]
         IN IF \E j \in 1..Len(front) : front[j] = kw
            THEN dict_keys(front)
            ELSE Append(dict_keys(front), kw)

\* tc.char_count of a text_cache row
char_count(text) == Len(text)

\* SELECT f.id, f.filename, tc.extracted_text FROM files f JOIN text_cache tc
\* ON tc.file_id = f.id WHERE tc.char_count > 0, in the order of the scan
select_texts(tc, order) ==
    LET RECURSIVE go(_)
        go(i) == IF i > Len(order) THEN <<>>
                 ELSE (IF char_count(tc[order[i]]) > 0
                       THEN <<[file_id |-> order[i], text |-> tc[order[i]]]>> ELSE <<>>)
                      \o go(i + 1)
    IN go(1)

CONTEXT_RADIUS == 150

\* a snippet that keeps the whitespace of the text
context_of_raw(text, m_start, m_end) ==
    slice(text, Max(0, m_start - CONTEXT_RADIUS),
                Min(Len(text), m_end + CONTEXT_RADIUS))

\* the context snippet of a row: the window around the first match,
\* whitespace runs collapsed
context_of(text, m_start, m_end) ==
    LET start == Max(0, m_start - CONTEXT_RADIUS)
        end == Min(Len(text), m_end + CONTEXT_RADIUS)
    IN join_sp(split_ws(slice(text, start, end), 1))

\* a scan without "if matches": a row for every file
scan_rows_always(file_id, text, kw) ==
    LET pattern == re_escape(kw)
        matches == finditer(pattern, text, 0)
    IN <<[file_id |-> file_id, keyword |-> kw, match_count |-> Len(matches),
          context |-> IF matches = <<>> THEN <<>>
                      ELSE context_of(text, matches[1], matches[1] + Len(pattern))]>>

\* the row the scan inserts for one file and keyword, or nothing
scan_rows(file_id, text, kw) ==
    LET pattern == re_escape(kw)
        matches == finditer(pattern, text, 0)
    IN IF matches # <<>>
       THEN <<[file_id |-> file_id, keyword |-> kw, match_count |-> Len(matches),
               context |-> context_of(text, matches[1], matches[1] + Len(pattern))]>>
       ELSE <<>>

\* a run that clears nothing
delete_keyword_none(table, kw) == table

\* a DELETE that compares keywords without case
delete_keyword_nocase(table, kw) ==
    SelectSeq(table, LAMBDA r :
        [i \in 1..Len(r.keyword) |-> lower(r.keyword[i])]
            # [i \in 1..Len(kw) |-> lower(kw[i])])

\* DELETE FROM search_results WHERE keyword = ?
delete_keyword(table, kw) == SelectSeq(table, LAMBDA r : r.keyword # kw)

NoRun == [kws |-> {}, rows |-> <<>>, start_version |-> 0, end_version |-> 0]

IdleSession ==
    [pc |-> "idle", keywords |-> <<>>, patterns |-> <<>>, rows |-> <<>>,
     ki |-> 0, fi |-> 0, kw_hits |-> 0, total_hits |-> 0,
     runs |-> 0, start_version |-> 0]

\* the loop heads, with "total_hits += kw_hits" left out
next_position_no_total(r) ==
    IF r.fi <= Len(r.rows) THEN r
    ELSE [r EXCEPT !.ki = r.ki + 1,
                   !.pc = IF r.ki + 1 > Len(r.patterns) THEN "commit" ELSE "delete"]

\* the loop heads of lines 798 and 802: past the last file the keyword is done,
\* past the last keyword the scan is done
next_position(r) ==
    IF r.fi <= Len(r.rows) THEN r
    ELSE [r EXCEPT !.total_hits = r.total_hits + r.kw_hits,
                   !.ki = r.ki + 1,
                   !.pc = IF r.ki + 1 > Len(r.patterns) THEN "commit" ELSE "delete"]

\* the button is pressed with new_keywords in the text area: parse, compile,
\* fetch all text
IndexStart(s, new_keywords) ==
    /\ sess[s].pc \in {"idle", "done", "failed"}
    /\ sess[s].runs < MaxRuns
    /\ LET keywords == parse_keywords(new_keywords)
       IN IF keywords = <<>>
          THEN sess' = [sess EXCEPT ![s] = [@ EXCEPT !.runs = @ + 1]]
          ELSE sess' = [sess EXCEPT ![s] =
                   [@ EXCEPT !.pc = "delete",
                             !.keywords = keywords,
                             !.patterns = dict_keys(keywords),
                             !.rows = select_texts(text_cache, scan_order),
                             !.ki = 1, !.fi = 0, !.kw_hits = 0, !.total_hits = 0,
                             !.runs = @ + 1,
                             !.start_version = corpus_version]]
    /\ UNCHANGED <<text_cache, corpus_version, search_results, durable, in_txn, registry>>

\* conn.execute("DELETE FROM search_results WHERE keyword = ?", (kw,))
DeleteOld(s) ==
    /\ sess[s].pc = "delete"
    /\ search_results' = delete_keyword(search_results, sess[s].patterns[sess[s].ki])
    /\ in_txn' = TRUE
    /\ sess' = [sess EXCEPT ![s] =
                  next_position([@ EXCEPT !.pc = "scan", !.kw_hits = 0, !.fi = 1])]
    /\ UNCHANGED <<text_cache, corpus_version, durable, registry>>

\* one iteration of "for file_id, filename, text in rows"
ScanFile(s) ==
    /\ sess[s].pc = "scan"
    /\ LET r == sess[s]
           row == r.rows[r.fi]
           new == scan_rows(row.file_id, row.text, r.patterns[r.ki])
       IN /\ search_results' = search_results \o new
          /\ in_txn' = (in_txn \/ new # <<>>)
          /\ sess' = [sess EXCEPT ![s] =
                next_position([@ EXCEPT
                    !.fi = r.fi + 1,
                    !.kw_hits = r.kw_hits + (IF new = <<>> THEN 0 ELSE new[1].match_count)])]
    /\ UNCHANGED <<text_cache, corpus_version, durable, registry>>

\* existing: set(DEFAULT_KEYWORDS), or set() when the import fails
existing ==
    IF processor.status = "importable" THEN processor.DEFAULT_KEYWORDS ELSE {}

\* conn.commit(), on the shared connection: whatever its transaction holds
\* becomes durable; then the keywords that are not in existing are appended
\* to custom_keywords.txt, after epstein_processor.py was opened for reading,
\* which raises when the file is missing
Commit(s) ==
    /\ sess[s].pc = "commit"
    /\ durable' = search_results
    /\ in_txn' = FALSE
    /\ LET new_to_add == SelectSeq(sess[s].keywords, LAMBDA kw : kw \notin existing)
       IN IF new_to_add # <<>> /\ processor.status = "missing"
          THEN /\ sess' = [sess EXCEPT ![s] = [@ EXCEPT !.pc = "failed"]]
               /\ UNCHANGED registry
          ELSE /\ sess' = [sess EXCEPT ![s] = [@ EXCEPT !.pc = "done"]]
               /\ registry' = registry \o new_to_add
    /\ UNCHANGED <<text_cache, corpus_version, search_results>>

\* conn.execute raises (the store is locked or full): nothing catches it, the
\* script run ends, and the cached connection keeps its open transaction
StorageFailure(s) ==
    /\ sess[s].pc \in {"delete", "scan"}
    /\ sess[s].pc = "scan" =>
          LET r == sess[s]
          IN scan_rows(r.rows[r.fi].file_id, r.rows[r.fi].text, r.patterns[r.ki]) # <<>>
    /\ sess' = [sess EXCEPT ![s] = [@ EXCEPT !.pc = "failed"]]
    /\ UNCHANGED <<text_cache, corpus_version, search_results, durable, in_txn, registry>>


\* the ingestion pipeline (outside this program) writes a file's text_cache row
Ingest(f, t) ==
    /\ corpus_version < MaxIngest
    /\ IF f \in DOMAIN text_cache THEN text_cache[f] # t ELSE TRUE
    /\ text_cache' = [g \in DOMAIN text_cache \cup {f} |->
                        IF g = f THEN t ELSE text_cache[g]]
    /\ corpus_version' = corpus_version + 1
    /\ scan_order' = IF f \in DOMAIN text_cache THEN scan_order ELSE Append(scan_order, f)
    /\ UNCHANGED <<search_results, durable, in_txn, sess, before, hist, search, graphVars,
                   run, registry, processor>>

---------------------------------------------------------------------------
(* Full-text search: tab 5 *)

SEARCH_LIMIT == 200
batch_size == 10
HIGHLIGHT_RADIUS == 200
FALLBACK_LEN == 400

\* a LIKE without its LIMIT
unlimited == MaxSearchFiles + 1

\* X LIKE P of SQLite: % is any run of characters, _ any one character, any
\* other character itself whatever its letter case
RECURSIVE like(_, _)
like(pattern, text) ==
    IF pattern = <<>> THEN text = <<>>
    ELSE IF Head(pattern) = "%"
         THEN like(Tail(pattern), text) \/ (text # <<>> /\ like(pattern, Tail(text)))
    ELSE IF text = <<>> THEN FALSE
    ELSE IF Head(pattern) = "_" THEN like(Tail(pattern), Tail(text))
    ELSE lower(Head(pattern)) = lower(Head(text)) /\ like(Tail(pattern), Tail(text))

\* the bound parameter f"%{search_term}%"
like_pattern(search_term) == <<"%">> \o search_term \o <<"%">>

\* the ids of the rows lo..hi of the scan whose text is LIKE pattern, in the
\* order of the scan (the halves are scanned one after the other)
RECURSIVE like_scan(_, _, _, _, _)
like_scan(tc, order, pattern, lo, hi) ==
    IF lo > hi THEN <<>>
    ELSE IF lo = hi
         THEN (IF like(pattern, tc[order[lo]]) THEN <<order[lo]>> ELSE <<>>)
    ELSE LET mid == (lo + hi) \div 2
         IN like_scan(tc, order, pattern, lo, mid)
            \o like_scan(tc, order, pattern, mid + 1, hi)

\* SELECT ... FROM text_cache tc JOIN files f ON f.id = tc.file_id
\* WHERE tc.extracted_text LIKE ? LIMIT n: no ORDER BY, the rows come as the
\* scan meets them
like_rows(tc, order, pattern, n) ==
    LET all == like_scan(tc, order, pattern, 1, Len(order))
    IN SubSeq(all, 1, Min(n, Len(all)))

\* the query of line 470 without its LIMIT 200
select_like_unlimited(tc, order, search_term) ==
    like_rows(tc, order, like_pattern(search_term), unlimited)

\* the query of line 470
select_like(tc, order, search_term) ==
    like_rows(tc, order, like_pattern(search_term), SEARCH_LIMIT)

\* str.find: the lowest 0-based offset of sub in text, or -1
RECURSIVE find(_, _, _)
find(text, sub, i) ==
    IF i + Len(sub) > Len(text) THEN -1
    ELSE IF \A j \in 1..Len(sub) : text[i + j] = sub[j] THEN i
    ELSE find(text, sub, i + 1)

lower_str(text) == [i \in 1..Len(text) |-> lower(text[i])]

\* what the expander of one hit shows: the context with the match in bold,
\* or the head of the text when the term is not found in it
highlight(text, search_term) ==
    LET idx == find(lower_str(text), lower_str(search_term), 0)
    IN IF idx >= 0
       THEN LET start == Max(0, idx - HIGHLIGHT_RADIUS)
                end == Min(Len(text), idx + Len(search_term) + HIGHLIGHT_RADIUS)
                context == slice(text, start, end)
                match_start == idx - start
                match_end == match_start + Len(search_term)
            IN [found |-> TRUE,
                highlighted |-> slice(context, 0, match_start) \o <<"*", "*">>
                                \o slice(context, match_start, match_end) \o <<"*", "*">>
                                \o slice(context, match_end, Len(context))]
       ELSE [found |-> FALSE,
             highlighted |-> slice(text, 0, Min(Len(text), FALLBACK_LEN))]

IdleSearch ==
    [pc |-> "idle", search_term |-> <<>>, cursor |-> <<>>, hit_count |-> 0,
     results |-> <<>>, labels |-> <<>>, done_label |-> 0, shown |-> <<>>]

\* "Search" is pressed with a non-empty term: conn.execute of the LIKE query
SearchStart(term) ==
    /\ search.pc = "idle"
    /\ term # <<>>
    /\ search' = [IdleSearch EXCEPT !.pc = "fetch",
                                    !.search_term = term,
                                    !.cursor = select_like(text_cache, scan_order, term)]
    /\ UNCHANGED <<text_cache, corpus_version, search_results, durable, in_txn,
                   sess, before, hist, graphVars, run, storeVars>>

\* one turn of the while loop: cursor.fetchmany(batch_size), then either the
\* break and the "Done" label or the "so far" label
FetchBatch ==
    /\ search.pc = "fetch"
    /\ LET n == Min(batch_size, Len(search.cursor))
           rows == SubSeq(search.cursor, 1, n)
       IN search' =
            IF rows = <<>>
            THEN [search EXCEPT !.pc = "render", !.done_label = search.hit_count]
            ELSE [search EXCEPT
                    !.cursor = SubSeq(search.cursor, n + 1, Len(search.cursor)),
                    !.results = search.results \o rows,
                    !.hit_count = search.hit_count + Len(rows),
                    !.labels = Append(search.labels, search.hit_count + Len(rows))]
    /\ UNCHANGED <<text_cache, corpus_version, search_results, durable, in_txn,
                   sess, before, hist, graphVars, run, storeVars>>

\* the loop over results: one expander per hit
RenderHits ==
    /\ search.pc = "render"
    /\ search' = [search EXCEPT
            !.pc = "done",
            !.shown = [i \in 1..Len(search.results) |->
                         highlight(text_cache[search.results[i]], search.search_term)]]
    /\ UNCHANGED <<text_cache, corpus_version, search_results, durable, in_txn,
                   sess, before, hist, graphVars, run, storeVars>>

---------------------------------------------------------------------------
(* The relationship graph: tab 7 *)

vip_names ==
    {"jeffrey epstein", "ghislaine maxwell", "donald trump", "donald j. trump",
     "bill clinton", "prince andrew", "alan dershowitz", "les wexner",
     "jean-luc brunel", "virginia roberts", "virginia giuffre"}

epstein_names == {"jeffrey epstein", "epstein", "jeffrey"}

\* st.slider("Minimum shared files", 2, 20, 3) and st.slider("Max nodes", 20, 300, 100)
MIN_WEIGHT_LOW == 2
MAX_NODES_LOW == 20

\* colors.get(lt, "#95a5a6")
colors(lt) ==
    CASE lt = "PERSON" -> "#e74c3c" [] lt = "ORG" -> "#3498db" [] OTHER -> "#95a5a6"

RECURSIVE sum_count(_)
sum_count(rows) ==
    IF rows = {} THEN 0
    ELSE LET r == CHOOSE x \in rows : TRUE IN r.count + sum_count(rows \ {r})

rows_of(rows, name) == {r \in rows : r.normalized = name}
files_of(rows, name) == {r.file_id : r \in rows_of(rows, name)}
labels_of(rows, name) == {r.entity_label : r \in rows_of(rows, name)}
names_of(rows) == {r.normalized : r \in rows}

\* entity_types = ('PERSON', 'ORG') if show_orgs else ('PERSON',)
entity_types(show_orgs) == IF show_orgs THEN {"PERSON", "ORG"} ELSE {"PERSON"}

\* FROM entities WHERE entity_label IN (...)
typed_rows(rows, show_orgs) == {r \in rows : r.entity_label \in entity_types(show_orgs)}

\* GROUP BY normalized HAVING files >= ?
having_files(rows, min_weight) ==
    {n \in names_of(rows) : Cardinality(files_of(rows, n)) >= min_weight}

\* a selection without the HAVING clause and without the LIMIT
top_entities_all(rows, min_weight, max_nodes) == {names_of(rows)}

\* ORDER BY files DESC LIMIT ?: the sets of names the query may return; names
\* with equal file counts at the cut are kept in an order SQL leaves open
top_entities(rows, min_weight, max_nodes) ==
    LET files == [n \in names_of(rows) |-> Cardinality(files_of(rows, n))]
        eligible == {n \in DOMAIN files : files[n] >= min_weight}
    IN IF Cardinality(eligible) <= max_nodes THEN {eligible}
       ELSE LET cut == CHOOSE c \in {files[n] : n \in eligible} :
                          /\ Cardinality({n \in eligible : files[n] > c}) < max_nodes
                          /\ Cardinality({n \in eligible : files[n] >= c}) >= max_nodes
                sure == {n \in eligible : files[n] > cut}
                tied == {n \in eligible : files[n] = cut}
            IN {sure \cup X : X \in {Y \in SUBSET tied :
                                        Cardinality(Y) = max_nodes - Cardinality(sure)}}

\* Force-add VIPs even if below threshold: the names with a row in entities
forced_vips(rows, entity_set) == {vip \in vip_names \ entity_set : rows_of(rows, vip) # {}}

\* entity_info: (entity_label, total, files) of a selected name; label is the
\* bare column of the GROUP BY, taken from one row of the group
entity_info(rows, name, label) ==
    [lt |-> label, tot |-> sum_count(rows_of(rows, name)),
     files |-> Cardinality(files_of(rows, name))]

\* SELECT entity_a, entity_b, file_count FROM entity_cooccurrence WHERE file_count >= ?
edges_query(cooccur, min_weight) == {e \in cooccur : e.file_count >= min_weight}

\* ... WHERE file_count >= 1 AND (entity_a IN (vips) OR entity_b IN (vips))
vip_edges_query(cooccur) ==
    {e \in cooccur : e.file_count >= 1 /\ (e.entity_a \in vip_names \/ e.entity_b \in vip_names)}

\* ORDER BY file_count DESC, as a list
RECURSIVE by_weight(_)
by_weight(es) ==
    IF es = {} THEN <<>>
    ELSE LET e == CHOOSE x \in es : \A y \in es : x.file_count >= y.file_count
         IN <<e>> \o by_weight(es \ {e})

\* a merge that adds every VIP edge, found before or not
all_edges_appended(cooccur, min_weight) ==
    by_weight(edges_query(cooccur, min_weight)) \o by_weight(vip_edges_query(cooccur))

\* all_edges: the edges at the threshold, then the VIP edges whose pair is not
\* yet a key
all_edges(cooccur, min_weight) ==
    LET edges == by_weight(edges_query(cooccur, min_weight))
        keys == {<<edges[i].entity_a, edges[i].entity_b>> : i \in 1..Len(edges)}
        vip_edges == by_weight(vip_edges_query(cooccur))
    IN edges \o SelectSeq(vip_edges, LAMBDA e : <<e.entity_a, e.entity_b>> \notin keys)

\* a node whose size grows with its files without end
node_of_unbounded(name, info) ==
    [id |-> name, color |-> colors(info.lt), size |-> 8 + info.files * 2,
     shape |-> "dot", lt |-> info.lt, files |-> info.files, tot |-> info.tot]

\* the attributes of a node: the central subject, a VIP, or by its type
node_of(name, info) ==
    IF name \in epstein_names
    THEN [id |-> name, color |-> "#00ff41", size |-> 60, shape |-> "diamond",
          lt |-> info.lt, files |-> info.files, tot |-> info.tot]
    ELSE IF name \in vip_names
    THEN [id |-> name, color |-> "#f1c40f",
          size |-> Max(25, Min(8 + info.files * 2, 50)), shape |-> "star",
          lt |-> info.lt, files |-> info.files, tot |-> info.tot]
    ELSE [id |-> name, color |-> colors(info.lt),
          size |-> Min(8 + info.files * 2, 50), shape |-> "dot",
          lt |-> info.lt, files |-> info.files, tot |-> info.tot]

\* "for node in (a, b)": the node is added unless it is there already or is an
\* organization while organizations are hidden
add_node(net, name, info, show_orgs) ==
    IF name \in DOMAIN net.nodes THEN net
    ELSE IF ~show_orgs /\ info[name].lt = "ORG" THEN net
    ELSE [net EXCEPT !.nodes = [n \in DOMAIN net.nodes \cup {name} |->
                IF n = name THEN node_of(name, info[name]) ELSE net.nodes[n]]]

\* the loop without the test "if a in added and b in added"
emit_edge_unchecked(net, e, entity_set, info, show_orgs) ==
    IF e.entity_a \notin entity_set \/ e.entity_b \notin entity_set THEN net
    ELSE LET n1 == add_node(net, e.entity_a, info, show_orgs)
             n2 == add_node(n1, e.entity_b, info, show_orgs)
         IN [n2 EXCEPT !.edges = Append(n2.edges,
                [a |-> e.entity_a, b |-> e.entity_b, value |-> e.file_count])]

\* one turn of "for (a, b), w in all_edges.items()"
emit_edge(net, e, entity_set, info, show_orgs) ==
    IF e.entity_a \notin entity_set \/ e.entity_b \notin entity_set THEN net
    ELSE LET n1 == add_node(net, e.entity_a, info, show_orgs)
             n2 == add_node(n1, e.entity_b, info, show_orgs)
         IN IF e.entity_a \in DOMAIN n2.nodes /\ e.entity_b \in DOMAIN n2.nodes
            THEN [n2 EXCEPT !.edges = Append(n2.edges,
                     [a |-> e.entity_a, b |-> e.entity_b, value |-> e.file_count])]
            ELSE n2

\* "for (a, b), w in all_edges.items()" over the edges lo..hi in their order:
\* the first half of them, then the second
RECURSIVE emit_all(_, _, _, _, _, _, _)
emit_all(net, es, lo, hi, entity_set, info, show_orgs) ==
    IF lo > hi THEN net
    ELSE IF lo = hi THEN emit_edge(net, es[lo], entity_set, info, show_orgs)
    ELSE LET mid == (lo + hi) \div 2
             half == emit_all(net, es, lo, mid, entity_set, info, show_orgs)
         IN emit_all(half, es, mid + 1, hi, entity_set, info, show_orgs)

EmptyNet == [nodes |-> <<>>, edges |-> <<>>]

\* the graphs "Generate Graph" may build from the two tables: one for each
\* answer the GROUP BY queries may give
build_graph(rows, cooccur, min_weight, max_nodes, show_orgs) ==
    LET typed == typed_rows(rows, show_orgs)
    IN UNION {
         LET vips == forced_vips(rows, top)
             entity_set == top \cup vips
             allowed == [n \in entity_set |->
                            IF n \in top THEN labels_of(typed, n) ELSE labels_of(rows, n)]
             open == {n \in entity_set : Cardinality(allowed[n]) > 1}
         IN {LET info == [n \in entity_set |->
                            entity_info(IF n \in top THEN typed ELSE rows, n,
                                        IF n \in open THEN pick[n]
                                        ELSE CHOOSE l \in allowed[n] : TRUE)]
                 es == all_edges(cooccur, min_weight)
             IN [net |-> emit_all(EmptyNet, es, 1, Len(es), entity_set, info, show_orgs),
                 entity_set |-> entity_set, top |-> top, all_edges |-> es]
             : pick \in {f \in [open -> {"PERSON", "ORG"}] :
                            \A n \in open : f[n] \in allowed[n]}}
         : top \in top_entities(typed, min_weight, max_nodes)}

\* the probe of line 571: the entities table exists and has rows
has_entities == "entities" \in tables /\ entities # {}

\* the probe of line 616
has_cooccur == "entity_cooccurrence" \in tables /\ entity_cooccurrence # {}

IdleGraph ==
    [pc |-> "idle", min_weight |-> 0, max_nodes |-> 0, show_orgs |-> FALSE,
     built |-> [net |-> EmptyNet, entity_set |-> {}, top |-> {}, all_edges |-> <<>>],
     html |-> EmptyNet]

\* tab 7 with both tables filled: the graph is built from the sliders and
\* saved to graph_path
GenerateGraph(s, min_weight, max_nodes, show_orgs) ==
    /\ gsess[s].pc \in {"idle", "shown"}
    /\ has_entities /\ has_cooccur
    /\ \E g \in build_graph(entities, entity_cooccurrence, min_weight, max_nodes, show_orgs) :
          /\ graph_file' = g.net
          /\ gsess' = [gsess EXCEPT ![s] =
                [pc |-> "saved", min_weight |-> min_weight, max_nodes |-> max_nodes,
                 show_orgs |-> show_orgs, built |-> g, html |-> EmptyNet]]
    /\ UNCHANGED <<text_cache, corpus_version, search_results, durable, in_txn,
                   sess, before, hist, search, tables, entities, entity_cooccurrence,
                   run, storeVars>>

\* with open(graph_path, 'r') as f: st.components.v1.html(f.read(), ...)
ShowGraph(s) ==
    /\ gsess[s].pc = "saved"
    /\ gsess' = [gsess EXCEPT ![s] = [@ EXCEPT !.pc = "shown", !.html = graph_file]]
    /\ UNCHANGED <<text_cache, corpus_version, search_results, durable, in_txn,
                   sess, before, hist, search, tables, entities, entity_cooccurrence,
                   graph_file, run, storeVars>>

---------------------------------------------------------------------------
(* The keywords that share files with Trump: tab 2 *)

TRUMP == <<"T", "r", "u", "m", "p">>
DONALD_TRUMP == <<"D", "o", "n", "a", "l", "d", SP>> \o TRUMP
EPSTEIN == <<"E", "p", "s", "t", "e", "i", "n">>

\* WHERE tc.extracted_text LIKE '%Trump%'
trump_pattern == <<"%">> \o TRUMP \o <<"%">>

\* trump_file_ids
trump_file_ids(tc) == {f \in DOMAIN tc : like(trump_pattern, tc[f])}

\* AND sr.keyword NOT IN ('Donald Trump', 'Trump')
anchor_keywords == {DONALD_TRUMP, TRUMP}

\* LIMIT 30
COOCCUR_LIMIT == 30

\* the query with its WHERE sr.file_id IN (...) left out
shared_rows_anywhere(table, ids) ==
    SelectSeq(table, LAMBDA r : r.keyword \notin anchor_keywords)

\* FROM search_results sr WHERE sr.file_id IN (...) AND sr.keyword NOT IN (...)
shared_rows(table, ids) ==
    SelectSeq(table, LAMBDA r : r.file_id \in ids /\ r.keyword \notin anchor_keywords)

\* SUM(sr.match_count)
RECURSIVE sum_match_count(_)
sum_match_count(rows) ==
    IF rows = <<>> THEN 0 ELSE Head(rows).match_count + sum_match_count(Tail(rows))

\* GROUP BY sr.keyword: one line per keyword
keyword_groups(rows) ==
    {[Name |-> k,
      Shared |-> Cardinality({rows[i].file_id : i \in {j \in 1..Len(rows) : rows[j].keyword = k}}),
      Total |-> sum_match_count(SelectSeq(rows, LAMBDA r : r.keyword = k))] :
        k \in {rows[i].keyword : i \in 1..Len(rows)}}

\* the subsets of S with k elements
RECURSIVE k_subsets(_, _)
k_subsets(S, k) ==
    IF k = 0 THEN {{}}
    ELSE IF Cardinality(S) < k THEN {}
    ELSE LET x == CHOOSE y \in S : TRUE
         IN {T \cup {x} : T \in k_subsets(S \ {x}, k - 1)} \cup k_subsets(S \ {x}, k)

\* ORDER BY COUNT(DISTINCT sr.file_id) DESC, as a list
RECURSIVE by_shared(_)
by_shared(groups) ==
    IF groups = {} THEN <<>>
    ELSE LET g == CHOOSE x \in groups : \A y \in groups : x.Shared >= y.Shared
         IN <<g>> \o by_shared(groups \ {g})

\* ORDER BY ... DESC LIMIT n: the lists the query may return; which of the
\* lines with equal counts fall under the limit SQL leaves open
limited(groups, n) ==
    IF Cardinality(groups) <= n THEN {by_shared(groups)}
    ELSE LET cut == CHOOSE c \in {g.Shared : g \in groups} :
                       /\ Cardinality({g \in groups : g.Shared > c}) < n
                       /\ Cardinality({g \in groups : g.Shared >= c}) >= n
             sure == {g \in groups : g.Shared > cut}
             tied == {g \in groups : g.Shared = cut}
         IN {by_shared(sure \cup X) : X \in k_subsets(tied, n - Cardinality(sure))}

\* df_cooccur: the frames tab 2 may show; none when no file mentions Trump
df_cooccur(tc, table) ==
    IF trump_file_ids(tc) = {} THEN {<<>>}
    ELSE limited(keyword_groups(shared_rows(table, trump_file_ids(tc))), COOCCUR_LIMIT)

---------------------------------------------------------------------------
(* One run of the script: main() from top to bottom *)

\* the "with" blocks of main(), in the order they run
Sections ==
    <<"tab1", "tab2", "tab_bannon", "tab3", "tab4", "tab5", "tab6", "tab7", "sidebar">>

\* the blocks that read files, text_cache and search_results only
PlainSections == {"tab1", "tab3", "tab4", "tab5", "tab6", "sidebar"}

IdleRun ==
    [pc |-> 0, rendered |-> {}, disabled |-> {}, raised |-> FALSE, df_cooccur |-> <<>>]

\* WHERE tc.extracted_text LIKE '%Bannon%'
bannon_pattern == <<"%", "B", "a", "n", "n", "o", "n", "%">>

bannon_files == {f \in DOMAIN text_cache : like(bannon_pattern, text_cache[f])}

RunRest ==
    UNCHANGED <<text_cache, corpus_version, search_results, durable, in_txn, sess,
                before, hist, search, graphVars, storeVars>>

\* the script starts: st.set_page_config, get_db, st.tabs
RunStart ==
    /\ run.pc \in {0, Len(Sections) + 1}
    /\ run' = [IdleRun EXCEPT !.pc = 1]
    /\ RunRest

\* a block that does not touch the optional tables, no button pressed
Render(sec) ==
    /\ run.pc \in 1..Len(Sections)
    /\ Sections[run.pc] = sec
    /\ sec \in PlainSections
    /\ run' = [run EXCEPT !.pc = @ + 1, !.rendered = @ \cup {sec}]
    /\ RunRest

\* tab 2: the files that mention Trump and the keywords indexed in them
Tab2 ==
    /\ run.pc \in 1..Len(Sections)
    /\ Sections[run.pc] = "tab2"
    /\ \E df \in df_cooccur(text_cache, search_results) :
          run' = [run EXCEPT !.pc = @ + 1, !.rendered = @ \cup {"tab2"},
                             !.df_cooccur = df]
    /\ RunRest

\* tab_bannon: when a file mentions Bannon, entities is read without a probe;
\* on a database without that table the query raises and the run ends there
TabBannon ==
    /\ run.pc \in 1..Len(Sections)
    /\ Sections[run.pc] = "tab_bannon"
    /\ run' = IF bannon_files # {} /\ "entities" \notin tables
              THEN [run EXCEPT !.pc = Len(Sections) + 1, !.raised = TRUE]
              ELSE [run EXCEPT !.pc = @ + 1, !.rendered = @ \cup {"tab_bannon"}]
    /\ RunRest

\* tab 7 with no button pressed and no graph file: the probes, the warning
\* "No entities extracted yet" or the hint "Run co-occurrence analysis"
Tab7 ==
    /\ run.pc \in 1..Len(Sections)
    /\ Sections[run.pc] = "tab7"
    /\ run' = [run EXCEPT
                 !.pc = @ + 1,
                 !.rendered = @ \cup {"tab7"},
                 !.disabled = IF ~has_entities THEN {"entities"}
                              ELSE IF ~has_cooccur THEN {"entity_cooccurrence"}
                              ELSE {}]
    /\ RunRest

InitNoGraph ==
    /\ tables = {}
    /\ entities = {}
    /\ entity_cooccurrence = {}
    /\ graph_file = EmptyNet
    /\ gsess = [s \in Sessions |-> IdleGraph]

---------------------------------------------------------------------------
(* Inputs of the model *)

IndexAlphabet == {"a", "A", ".", SP}

\* every string over the alphabet of a length up to n
StringsUpTo(alphabet, n) == UNION {[1..k -> alphabet] : k \in 0..n}

\* the texts of the files of the two-file corpus
CorpusTexts == {<<>>, <<"a", "a", "a">>, <<"A", SP, "b">>}

\* what a user types into the text area before a press that indexes
Inputs == {<<"a">>, <<"a", NL, "b">>, <<SP, "b", NL, NL, "b">>}

Corpora == UNION {[D -> CorpusTexts] : D \in SUBSET Files}

\* the inputs of the sessions that run side by side
SharedInputs == {<<"a">>, <<"a", NL, "b">>}

\* the corpora of the sessions that run side by side
SharedCorpora ==
    {[f \in Files |-> <<"a", "a", "a">>],
     [f \in Files |-> IF f = 1 THEN <<"A", SP, "b">> ELSE <<>>]}

InitStore ==
    /\ corpus_version = 0
    /\ search_results = <<>>
    /\ durable = <<>>
    /\ in_txn = FALSE
    /\ sess = [s \in Sessions |-> IdleSession]
    /\ before = [s \in Sessions |-> <<>>]
    /\ hist = [last |-> NoRun, prev |-> NoRun]
    /\ run = IdleRun
    /\ registry = <<>>

\* the ids of S, lowest first
Ascending(S) ==
    IF S = 1..Cardinality(S) THEN [i \in 1..Cardinality(S) |-> i]
    ELSE [i \in 1..Cardinality(S) |->
            CHOOSE x \in S : Cardinality({y \in S : y < x}) = i - 1]

Reverse(seq) == [i \in 1..Len(seq) |-> seq[Len(seq) + 1 - i]]

\* the orders in which a scan may meet the rows of text_cache: the rows were
\* written lowest file id first, or highest first
ScanOrders(tc) == {Ascending(DOMAIN tc), Reverse(Ascending(DOMAIN tc))}

\* every keyword of the inputs below
KnownKeywords ==
    {TRUMP, EPSTEIN, <<"x">>} \cup
    UNION {{parse_keywords(input)[i] : i \in 1..Len(parse_keywords(input))} :
             input \in Inputs \cup SharedInputs \cup StringsUpTo(IndexAlphabet, MaxKwLen)}

\* text_cache was written in file id order, and epstein_processor.py lists
\* every keyword already: custom_keywords.txt stays as it is
InitEnv ==
    /\ scan_order = Ascending(DOMAIN text_cache)
    /\ processor = [status |-> "importable", DEFAULT_KEYWORDS |-> KnownKeywords]

\* nothing but the indexer runs
InitRest ==
    /\ search = IdleSearch
    /\ InitNoGraph
    /\ InitEnv

IndexOnly == UNCHANGED <<search, graphVars, run, scan_order, processor>>
NoHistory == UNCHANGED <<before, hist>>

\* history: a run of session s starts from this table
RecordStart(s) == before' = [before EXCEPT ![s] = search_results]

\* history: session s has completed a run
RecordRun(s) ==
    hist' = [prev |-> hist.last,
             last |-> [kws |-> {sess[s].patterns[i] : i \in 1..Len(sess[s].patterns)},
                       rows |-> search_results,
                       start_version |-> sess[s].start_version,
                       end_version |-> corpus_version]]

---------------------------------------------------------------------------
(* Specifications *)

\* one session, no failure, the corpus rewritten from outside
InitSeq ==
    /\ text_cache \in Corpora
    /\ InitStore
    /\ InitRest

NextSeq ==
    \/ \E input \in Inputs : IndexStart(1, input) /\ NoHistory /\ IndexOnly
    \/ DeleteOld(1) /\ NoHistory /\ IndexOnly
    \/ ScanFile(1) /\ NoHistory /\ IndexOnly
    \/ Commit(1) /\ RecordRun(1) /\ UNCHANGED before /\ IndexOnly
    \/ \E f \in Files, t \in CorpusTexts : Ingest(f, t)

SpecSeq == InitSeq /\ [][NextSeq]_vars

\* one run over one file, every text and every keyword up to the bounds
InitScan ==
    /\ text_cache \in [{1} -> StringsUpTo(IndexAlphabet, MaxTextLen)]
    /\ InitStore
    /\ InitRest

NextScan ==
    \/ \E input \in StringsUpTo(IndexAlphabet, MaxKwLen) :
          sess[1].runs = 0 /\ IndexStart(1, input) /\ NoHistory /\ IndexOnly
    \/ DeleteOld(1) /\ NoHistory /\ IndexOnly
    \/ ScanFile(1) /\ NoHistory /\ IndexOnly
    \/ Commit(1) /\ NoHistory /\ IndexOnly

SpecScan == InitScan /\ [][NextScan]_vars

\* the sessions of one server process, sharing the cached connection
Init ==
    /\ text_cache \in SharedCorpora
    /\ InitStore
    /\ InitRest

Next ==
    \E s \in Sessions :
        \/ \E input \in SharedInputs :
              IndexStart(s, input) /\ RecordStart(s) /\ UNCHANGED hist /\ IndexOnly
        \/ DeleteOld(s) /\ NoHistory /\ IndexOnly
        \/ ScanFile(s) /\ NoHistory /\ IndexOnly
        \/ Commit(s) /\ NoHistory /\ IndexOnly
        \/ StorageFailure(s) /\ NoHistory /\ IndexOnly

Spec == Init /\ [][Next]_vars

\* the full-text search over a corpus that stands still
SearchAlphabet == {"a", "A", "b", "%", "_"}
TermAlphabet == {"a", "%", "_"}

\* n files whose texts repeat the texts of base in turn
Repeated(base, n) == [f \in 1..n |-> base[((f - 1) % Len(base)) + 1]]

SearchCorpora ==
    [{1} -> StringsUpTo(SearchAlphabet, MaxTextLen)]
    \cup {Repeated(base, n) : base \in {<<<<"a">>>>, <<<<"A", "b">>, <<"b">>>>},
                              n \in 0..MaxSearchFiles}

InitSearch ==
    /\ text_cache \in SearchCorpora
    /\ InitStore
    /\ search = IdleSearch
    /\ InitNoGraph
    /\ scan_order \in ScanOrders(text_cache)
    /\ processor = [status |-> "importable", DEFAULT_KEYWORDS |-> KnownKeywords]

NextSearch ==
    \/ \E term \in StringsUpTo(TermAlphabet, MaxTermLen) : SearchStart(term)
    \/ FetchBatch
    \/ RenderHits

SpecSearch == InitSearch /\ [][NextSearch]_vars


\* the relationship graph over entity tables that stand still
CoreNames == <<"jeffrey epstein", "bill clinton", "john doe">>

FillerNames ==
    <<"p01", "p02", "p03", "p04", "p05", "p06", "p07", "p08", "p09", "p10", "p11",
      "p12", "p13", "p14", "p15", "p16", "p17", "p18", "p19", "p20", "p21", "p22",
      "p23", "p24">>

AllNames == CoreNames \o FillerNames

\* the place of a name in the canonical order of a stored pair
NameRank(n) == CHOOSE i \in 1..Len(AllNames) : AllNames[i] = n

\* the co-occurrence pass (outside this program): one row per pair of names
\* that share a file, in canonical order, weighted by the files they share
aggregate(rows) ==
    LET files == [n \in names_of(rows) |-> files_of(rows, n)]
    IN {[entity_a |-> p[1], entity_b |-> p[2],
         file_count |-> Cardinality(files[p[1]] \cap files[p[2]])] :
           p \in {q \in (DOMAIN files) \X (DOMAIN files) :
                    /\ NameRank(q[1]) < NameRank(q[2])
                    /\ files[q[1]] \cap files[q[2]] # {}}}

\* the rows of the core names: each name in file 1, in file 2, or in both, as
\* a person or as an organization
CoreRows ==
    {[file_id |-> f, normalized |-> CoreNames[i], entity_label |-> l, count |-> 1] :
        f \in {1, 2}, i \in 1..Len(CoreNames), l \in {"PERSON", "ORG"}}

CoreTables ==
    {T \in SUBSET CoreRows :
        \A r \in T, q \in T :
            (r.file_id = q.file_id /\ r.normalized = q.normalized) => r = q}

\* k further persons of growing prominence: the i-th is named in i + 1 files
\* of its own, and the first and the last SharedFillers of them in file 1 as
\* well
FillerRows(k) ==
    UNION {{[file_id |-> f, normalized |-> FillerNames[i], entity_label |-> "PERSON",
             count |-> 1] :
              f \in (IF i <= SharedFillers \/ i > k - SharedFillers THEN {1} ELSE {})
                       \cup ((1000 * i + 1)..(1000 * i + i + 1))} :
           i \in 1..k}

\* v further files that name Bill Clinton
VipRows(v) ==
    {[file_id |-> f, normalized |-> "bill clinton", entity_label |-> "PERSON",
      count |-> 1] : f \in 2001..(2000 + v)}

\* none, some, or enough of them for the largest star
VipFiles == {0, MaxVipFiles \div 2, MaxVipFiles}

\* the core tables that name a name in both files under one label
FullCores ==
    {T \in CoreTables :
        \A r \in T : \E q \in T : /\ q.normalized = r.normalized
                                  /\ q.file_id # r.file_id
                                  /\ q.entity_label = r.entity_label}

\* no such persons, or about as many as the node limit
FillerCounts == {0} \cup (MAX_NODES_LOW..MaxFill)

InitGraph ==
    /\ text_cache = <<>>
    /\ InitStore
    /\ search = IdleSearch
    /\ tables = {"entities", "entity_cooccurrence"}
    /\ \E k \in FillerCounts :
          \E core \in (IF k = 0 THEN CoreTables ELSE FullCores),
             v \in (IF k = 0 THEN {0} ELSE VipFiles) :
              entities = core \cup FillerRows(k) \cup VipRows(v)
    /\ entity_cooccurrence = aggregate(entities)
    /\ graph_file = EmptyNet
    /\ gsess = [s \in Sessions |-> IdleGraph]
    /\ InitEnv

NextGraph ==
    \/ \E min_weight \in MIN_WEIGHT_LOW..(MIN_WEIGHT_LOW + MaxSliderSteps),
          max_nodes \in MAX_NODES_LOW..(MAX_NODES_LOW + MaxSliderSteps),
          show_orgs \in BOOLEAN :
          gsess[1].pc = "idle" /\ GenerateGraph(1, min_weight, max_nodes, show_orgs)
    \/ ShowGraph(1)

SpecGraph == InitGraph /\ [][NextGraph]_vars

\* two sessions at tab 7 over the tables of the core names
InitShared ==
    /\ text_cache = <<>>
    /\ InitStore
    /\ search = IdleSearch
    /\ tables = {"entities", "entity_cooccurrence"}
    /\ entities \in FullCores
    /\ entity_cooccurrence = aggregate(entities)
    /\ graph_file = EmptyNet
    /\ gsess = [s \in Sessions |-> IdleGraph]
    /\ InitEnv

NextShared ==
    \/ \E s \in Sessions,
          min_weight \in MIN_WEIGHT_LOW..(MIN_WEIGHT_LOW + MaxSliderSteps),
          max_nodes \in MAX_NODES_LOW..(MAX_NODES_LOW + MaxSliderSteps),
          show_orgs \in BOOLEAN :
          gsess[s].pc = "idle" /\ GenerateGraph(s, min_weight, max_nodes, show_orgs)
    \/ \E s \in Sessions : ShowGraph(s)

SpecShared == InitShared /\ [][NextShared]_vars

\* runs of the script over databases with or without the optional tables
BANNON == <<"B", "a", "n", "n", "o", "n">>

RunCorpora == UNION {[D -> {<<>>, <<"a">>, BANNON}] : D \in SUBSET Files}

EntityTables ==
    {{}, {[file_id |-> 1, normalized |-> "jeffrey epstein", entity_label |-> "PERSON",
           count |-> 1],
          [file_id |-> 1, normalized |-> "john doe", entity_label |-> "PERSON",
           count |-> 1]}}

InitRun ==
    /\ text_cache \in RunCorpora
    /\ InitStore
    /\ search = IdleSearch
    /\ tables \in SUBSET {"entities", "entity_cooccurrence"}
    /\ entities \in (IF "entities" \in tables THEN EntityTables ELSE {{}})
    /\ entity_cooccurrence \in
          (IF "entity_cooccurrence" \in tables THEN {{}, aggregate(entities)} ELSE {{}})
    /\ graph_file = EmptyNet
    /\ gsess = [s \in Sessions |-> IdleGraph]
    /\ InitEnv

NextRun ==
    \/ RunStart
    \/ \E sec \in PlainSections : Render(sec)
    \/ Tab2
    \/ TabBannon
    \/ Tab7

SpecRun == InitRun /\ [][NextRun]_vars

\* runs of the script over a table that is filled already
AnchorKeyword(i) == [j \in 1..i |-> "x"]

\* keyword i is stored for the files 1..((i % 3) + 1) with match_count i
RECURSIVE AnchorRows(_)
AnchorRows(n) ==
    IF n = 0 THEN <<>>
    ELSE AnchorRows(n - 1) \o
         [f \in 1..((n % 3) + 1) |->
            [file_id |-> f, keyword |-> AnchorKeyword(n), match_count |-> n,
             context |-> <<"x">>]]

\* the rows of the keyword Trump itself
TrumpRows == <<[file_id |-> 1, keyword |-> TRUMP, match_count |-> 1, context |-> TRUMP]>>

AnchorTables ==
    {AnchorRows(n) \o extra : n \in 0..MaxKeywords, extra \in {<<>>, TrumpRows}}

AnchorCorpora == [1..3 -> {<<"a">>, <<"a", "t", "r", "u", "m", "p", "s">>}]

InitAnchor ==
    /\ text_cache \in AnchorCorpora
    /\ corpus_version = 0
    /\ search_results \in AnchorTables
    /\ durable = search_results
    /\ in_txn = FALSE
    /\ sess = [s \in Sessions |-> IdleSession]
    /\ before = [s \in Sessions |-> <<>>]
    /\ hist = [last |-> NoRun, prev |-> NoRun]
    /\ run = IdleRun
    /\ registry = <<>>
    /\ InitRest

SpecAnchor == InitAnchor /\ [][NextRun]_vars

\* the three documents of the end-to-end example: Trump 2, 5 and 1 times,
\* Epstein in the first
E2ECorpus ==
    <<TRUMP \o <<SP>> \o TRUMP \o <<SP>> \o EPSTEIN,
      TRUMP \o <<SP>> \o TRUMP \o <<SP>> \o TRUMP \o <<SP>> \o TRUMP \o <<SP>> \o TRUMP,
      TRUMP>>

E2EInputs == {TRUMP, EPSTEIN, TRUMP \o <<NL>> \o EPSTEIN}

InitE2E ==
    /\ text_cache = E2ECorpus
    /\ InitStore
    /\ InitRest

NextE2E ==
    \/ \E input \in E2EInputs : IndexStart(1, input) /\ NoHistory /\ IndexOnly
    \/ DeleteOld(1) /\ NoHistory /\ IndexOnly
    \/ ScanFile(1) /\ NoHistory /\ IndexOnly
    \/ Commit(1) /\ NoHistory /\ IndexOnly
    \/ NextRun

SpecE2E == InitE2E /\ [][NextE2E]_vars

\* one session, and an epstein_processor.py that may not know the keywords,
\* may fail to import, or may be missing
RegistryInputs == {<<>>, <<SP, NL>>, <<"a">>, <<"A">>, <<"a", NL, "a">>}

Processors ==
    {[status |-> "importable", DEFAULT_KEYWORDS |-> {}],
     [status |-> "importable", DEFAULT_KEYWORDS |-> {<<"a">>}],
     [status |-> "unimportable", DEFAULT_KEYWORDS |-> {}],
     [status |-> "missing", DEFAULT_KEYWORDS |-> {}]}

InitRegistry ==
    /\ text_cache \in [Files -> {<<"a">>, <<"A", SP, "b">>}]
    /\ InitStore
    /\ search = IdleSearch
    /\ InitNoGraph
    /\ scan_order = Ascending(DOMAIN text_cache)
    /\ processor \in Processors

NextRegistry ==
    \/ \E input \in RegistryInputs : IndexStart(1, input) /\ NoHistory /\ IndexOnly
    \/ DeleteOld(1) /\ NoHistory /\ IndexOnly
    \/ ScanFile(1) /\ NoHistory /\ IndexOnly
    \/ Commit(1) /\ NoHistory /\ IndexOnly

SpecRegistry == InitRegistry /\ [][NextRegistry]_vars

\* one file whose text has the keyword far from both ends or near them
Pad(c, n) == [i \in 1..n |-> c]

\* how far from an end of the text the keyword lies
Margins == {0, 2} \cup ((CONTEXT_RADIUS - 1)..(CONTEXT_RADIUS + MaxOver))

\* n characters, the last two of them whitespace or not
Fillings(n) ==
    IF n < 2 THEN {Pad("x", n)}
    ELSE {Pad("x", n), Pad("x", n - 2) \o <<SP, NL>>, <<SP>> \o Pad("x", n - 1)}

LongTexts ==
    {left \o <<"a", "a">> \o right :
        left \in UNION {Fillings(n) : n \in Margins},
        right \in UNION {Fillings(n) : n \in Margins}}

InitContext ==
    /\ text_cache \in [{1} -> LongTexts]
    /\ InitStore
    /\ InitRest

NextContext ==
    \/ \E input \in {<<"a">>, <<"a", "a">>, <<"a", NL, "a", "a">>} :
          sess[1].runs = 0 /\ IndexStart(1, input) /\ NoHistory /\ IndexOnly
    \/ DeleteOld(1) /\ NoHistory /\ IndexOnly
    \/ ScanFile(1) /\ NoHistory /\ IndexOnly
    \/ Commit(1) /\ NoHistory /\ IndexOnly

SpecContext == InitContext /\ [][NextContext]_vars

---------------------------------------------------------------------------
(* What the claims speak of *)

RowsFor(table, k) == SelectSeq(table, LAMBDA r : r.keyword = k)

FileIds(table) == {table[i].file_id : i \in 1..Len(table)}

\* the 0-based offsets at which kw occurs in text, letter case ignored
OccPositions(text, kw) ==
    {i \in 0..(Len(text) - Len(kw)) :
        \A j \in 1..Len(kw) : lower(text[i + j]) = lower(kw[j])}

\* the most occurrences one can pick so that no two of them overlap
MaxDisjoint(P, n) ==
    LET ok == {S \in SUBSET P : \A x \in S, y \in S : x < y => y - x >= n}
    IN CHOOSE c \in 0..Cardinality(P) :
          /\ \E S \in ok : Cardinality(S) = c
          /\ \A S \in ok : Cardinality(S) <= c

Overlapping(P, n) == \E x \in P, y \in P : x < y /\ y - x < n

\* the files that now have non-empty text containing k
MatchingFiles(k) ==
    {f \in DOMAIN text_cache :
        Len(text_cache[f]) > 0 /\ OccPositions(text_cache[f], k) # {}}

\* C1: two runs in a row with the same keywords over a corpus that did not
\* change leave the same rows for every keyword of the run: the second run
\* doubles nothing and loses nothing.
C1_Idempotent ==
    (/\ hist.last.kws # {}
     /\ hist.prev.kws = hist.last.kws
     /\ hist.prev.start_version = hist.last.end_version)
    => \A k \in hist.last.kws : RowsFor(hist.last.rows, k) = RowsFor(hist.prev.rows, k)

C1_Witness ==
    /\ sess[1].pc = "done"
    /\ hist.prev.kws = hist.last.kws
    /\ hist.prev.start_version = hist.last.end_version
    /\ \E k \in hist.last.kws : Len(RowsFor(hist.last.rows, k)) = NumFiles

\* C2 as claimed: every stored match_count is the number of positions at
\* which the keyword occurs in the file's text, overlapping occurrences
\* counted each.
C2_CountsEveryPosition ==
    \A i \in 1..Len(search_results) :
        LET r == search_results[i]
        IN r.match_count = Cardinality(OccPositions(text_cache[r.file_id], r.keyword))

\* C2 as amended: every stored match_count is the number of occurrences of
\* the keyword (letter case ignored, every character literal) that a scan from
\* the left finds without overlap, which is the most occurrences that can be
\* picked without overlap; it is the number of all positions whenever no two
\* occurrences overlap.
C2_CountsDisjointOccurrences ==
    \A i \in 1..Len(search_results) :
        LET r == search_results[i]
            P == OccPositions(text_cache[r.file_id], r.keyword)
        IN /\ r.match_count = MaxDisjoint(P, Len(r.keyword))
           /\ r.match_count >= 1
           /\ ~Overlapping(P, Len(r.keyword)) => r.match_count = Cardinality(P)

C2_Witness ==
    /\ sess[1].pc = "done"
    /\ \E i \in 1..Len(search_results) :
          LET r == search_results[i]
              P == OccPositions(text_cache[r.file_id], r.keyword)
          IN /\ Overlapping(P, Len(r.keyword))
             /\ r.match_count < Cardinality(P)
             /\ \E j \in 1..Len(r.keyword) : r.keyword[j] # text_cache[r.file_id][j]

\* C3: when a run over the current corpus has completed, the rows of each of
\* its keywords are exactly one row per file whose text is non-empty and
\* contains the keyword, whatever rows the keyword had before; a keyword that
\* no file contains has no row.
C3_FullReplace ==
    (hist.last.kws # {} /\ hist.last.start_version = corpus_version)
    => \A k \in hist.last.kws :
          LET rows == RowsFor(hist.last.rows, k)
          IN /\ FileIds(rows) = MatchingFiles(k)
             /\ Len(rows) = Cardinality(MatchingFiles(k))

C3_Witness ==
    /\ hist.last.start_version = corpus_version
    /\ \E k \in hist.last.kws :
          /\ k \in hist.prev.kws
          /\ Len(RowsFor(hist.prev.rows, k)) > Len(RowsFor(hist.last.rows, k))
          /\ Len(RowsFor(hist.last.rows, k)) > 0
    /\ \E k \in hist.last.kws : RowsFor(hist.last.rows, k) = <<>>

\* C4 as claimed: after a run of the only session that ever indexed has
\* failed, the table every later query sees is the table from before that run.
C4_AllOrNothing ==
    \A s \in Sessions :
        (sess[s].pc = "failed" /\ \A t \in Sessions \ {s} : sess[t].runs = 0)
        => search_results = before[s]

\* what one run alone leaves for keyword k
SingleRunRows(k) ==
    LET rows == select_texts(text_cache, scan_order)
        RECURSIVE go(_)
        go(i) == IF i > Len(rows) THEN <<>>
                 ELSE scan_rows(rows[i].file_id, rows[i].text, k) \o go(i + 1)
    IN go(1)

\* C5 as claimed: once two sessions have both completed a run that replaces
\* keyword k, the table holds for k what a single run produces, one row at
\* most per file.
C5_WritersSerialized ==
    (\A s \in Sessions : sess[s].pc = "done")
    => \A k \in {sess[1].patterns[i] : i \in 1..Len(sess[1].patterns)}
              \cap {sess[2].patterns[i] : i \in 1..Len(sess[2].patterns)} :
          RowsFor(search_results, k) = SingleRunRows(k)


\* C6: the search never holds more than 200 hits; the count it reports grows
\* from batch to batch, is the number of hits held so far, and the "Done"
\* label reports the number of hits returned.
C6_CapAndProgress ==
    /\ Len(search.results) <= SEARCH_LIMIT
    /\ search.hit_count = Len(search.results)
    /\ \A i \in 1..Len(search.labels), j \in 1..Len(search.labels) :
          i < j => search.labels[i] <= search.labels[j]
    /\ search.labels # <<>> => search.labels[Len(search.labels)] = Len(search.results)
    /\ search.pc \in {"render", "done"} => search.done_label = Len(search.results)

C6_Witness ==
    /\ search.pc = "done"
    /\ Len(search.results) = SEARCH_LIMIT
    /\ Len(select_like_unlimited(text_cache, scan_order, search.search_term)) > SEARCH_LIMIT
    /\ Len(search.labels) * batch_size = SEARCH_LIMIT

\* C7 as claimed: the hits of a finished search are files whose text contains
\* the term as a literal substring, letter case ignored, and below the cap
\* they are all such files.
C7_LiteralSubstring ==
    search.pc = "done" =>
        LET hits == {search.results[i] : i \in 1..Len(search.results)}
            containing == {f \in DOMAIN text_cache :
                             OccPositions(text_cache[f], search.search_term) # {}}
        IN /\ hits \subseteq containing
           /\ Len(search.results) < SEARCH_LIMIT => containing \subseteq hits



\* the graph a run has saved
Built == gsess[1].pc \in {"saved", "shown"}

Nodes == DOMAIN graph_file.nodes

EdgePairs == {<<graph_file.edges[i].a, graph_file.edges[i].b>> :
                 i \in 1..Len(graph_file.edges)}

\* C8: every VIP name with a row in entities is a node of the graph that is
\* built, and every co-occurrence row of weight >= 1 with that name at an end
\* is an edge of it
C8_PriorityIncluded ==
    Built =>
        \A vip \in vip_names :
            rows_of(entities, vip) # {} =>
                /\ vip \in Nodes
                /\ \A e \in entity_cooccurrence :
                      (e.file_count >= 1 /\ vip \in {e.entity_a, e.entity_b})
                          => <<e.entity_a, e.entity_b>> \in EdgePairs

\* C9: in the graph that is built every edge joins two nodes of that graph,
\* and a node is a name that survived the selection: a VIP or a name of the
\* chosen types in at least min_weight files, and no organization while
\* organizations are hidden
C9_EdgesJoinNodes ==
    Built =>
        /\ \A p \in EdgePairs : p[1] \in Nodes /\ p[2] \in Nodes
        /\ \A n \in Nodes :
              /\ \/ n \in vip_names
                 \/ Cardinality(files_of(typed_rows(entities, gsess[1].show_orgs), n))
                        >= gsess[1].min_weight
              /\ ~gsess[1].show_orgs => graph_file.nodes[n].lt # "ORG"

\* a graph with an edge, and a co-occurrence row at the threshold that was
\* dropped although one of its ends is a node
C9_Witness ==
    /\ Built
    /\ EdgePairs # {}
    /\ \E e \in entity_cooccurrence :
          /\ e.file_count >= gsess[1].min_weight
          /\ e.entity_a \in Nodes
          /\ e.entity_b \notin Nodes
          /\ <<e.entity_a, e.entity_b>> \notin EdgePairs

RunOver == run.pc = Len(Sections) + 1

\* C10: on a database where entities or entity_cooccurrence is absent or
\* empty no block of the run raises; the run reaches its end with every other
\* block drawn and tab 7 naming the table that is missing
C10_DegradesGracefully ==
    (~has_entities \/ ~has_cooccur) =>
        /\ ~run.raised
        /\ RunOver =>
              /\ PlainSections \cup {"tab2", "tab_bannon", "tab7"} \subseteq run.rendered
              /\ run.disabled # {}

\* the files whose text contains "Trump", letter case ignored
FileSet == {f \in DOMAIN text_cache : OccPositions(text_cache[f], TRUMP) # {}}

\* the rows of keyword k for files of FileSet
RowsIn(k) == SelectSeq(search_results, LAMBDA r : r.keyword = k /\ r.file_id \in FileSet)

\* the keywords, other than the anchor's own, with a row for a file of FileSet
CoKeywords ==
    {k \in {search_results[i].keyword : i \in 1..Len(search_results)} :
        k \notin anchor_keywords /\ RowsIn(k) # <<>>}

Shown == {run.df_cooccur[i].Name : i \in 1..Len(run.df_cooccur)}

\* every line shown is the line of a keyword of CoKeywords with its counts
\* over FileSet, no keyword has two lines, and the lines come by falling
\* number of files
LinesRight ==
    LET df == run.df_cooccur
        co == CoKeywords
    IN /\ \A i \in 1..Len(df) :
             /\ df[i].Name \in co
             /\ df[i].Shared = Cardinality(FileIds(RowsIn(df[i].Name)))
             /\ df[i].Total = sum_match_count(RowsIn(df[i].Name))
       /\ \A i \in 1..Len(df), j \in 1..Len(df) :
             /\ (i # j => df[i].Name # df[j].Name)
             /\ (i < j => df[i].Shared >= df[j].Shared)

\* C11 as claimed: the statistics of tab 2 have a line for each keyword of
\* CoKeywords, with its distinct files of FileSet and the sum of their
\* match_count, by falling number of files, and nothing else.
C11_EveryKeywordReported ==
    "tab2" \in run.rendered => (LinesRight /\ Shown = CoKeywords)

\* C11, amended: the statistics of tab 2 are lines of keywords of CoKeywords
\* with their counts over FileSet, by falling number of files; they are all
\* of them when there are at most 30, and else 30 of them, none left out
\* having more files than one that is shown.
C11_TopKeywordsReported ==
    "tab2" \in run.rendered =>
        /\ LinesRight
        /\ Len(run.df_cooccur) = Min(COOCCUR_LIMIT, Cardinality(CoKeywords))
        /\ \A k \in CoKeywords \ Shown :
              LET shared == Cardinality(FileIds(RowsIn(k)))
              IN \A i \in 1..Len(run.df_cooccur) : shared <= run.df_cooccur[i].Shared

\* more than 30 keywords share files with Trump, and one that is shown has a
\* row for a file that does not mention Trump
C11_Witness ==
    /\ "tab2" \in run.rendered
    /\ Cardinality(CoKeywords) > COOCCUR_LIMIT
    /\ Len(run.df_cooccur) = COOCCUR_LIMIT
    /\ \E k \in Shown : Len(RowsFor(search_results, k)) > Len(RowsIn(k))

\* the run of session 1 for the one keyword Trump is complete
TrumpIndexed == sess[1].pc = "done" /\ sess[1].keywords = <<TRUMP>>

\* the total of the run is 8, from 3 rows, and is the sum of their match_count
TrumpTotals ==
    TrumpIndexed =>
        /\ sess[1].total_hits = 8
        /\ Len(RowsFor(search_results, TRUMP)) = 3
        /\ sess[1].total_hits = sum_match_count(RowsFor(search_results, TRUMP))

\* this step draws tab 2
DrawsTab2 == "tab2" \notin run.rendered /\ "tab2" \in run'.rendered

\* the statistics drawn have the line of Epstein, with one file
EpsteinShown ==
    \E i \in 1..Len(run'.df_cooccur) :
        run'.df_cooccur[i].Name = EPSTEIN /\ run'.df_cooccur[i].Shared = 1

\* C12 as claimed: on the three documents, index_keywords({"Trump"}) reports
\* 8 matches from 3 files, the sum of the stored match_count, and tab 2 drawn
\* after it shows Epstein with 1 shared file.
C12_EndToEnd ==
    /\ []TrumpTotals
    /\ [][(TrumpIndexed /\ DrawsTab2) => EpsteinShown]_vars

\* C12, amended: on the three documents, index_keywords({"Trump"}) reports 8
\* matches from 3 files, the sum of the stored match_count, and tab 2 drawn
\* at any time shows Epstein with 1 shared file exactly when Epstein has rows
\* in search_results, that is, has been indexed itself.
C12_EndToEndIndexed ==
    /\ []TrumpTotals
    /\ [][DrawsTab2 => (EpsteinShown <=> RowsFor(search_results, EPSTEIN) # <<>>)]_vars

\* Trump was indexed after Epstein, and tab 2 shows Epstein with one file
C12_Witness ==
    /\ TrumpIndexed
    /\ sess[1].total_hits = 8
    /\ "tab2" \in run.rendered
    /\ \E i \in 1..Len(run.df_cooccur) :
          run.df_cooccur[i].Name = EPSTEIN /\ run.df_cooccur[i].Shared = 1

\* the files the query of the search matches
Matching ==
    {f \in DOMAIN text_cache : like(like_pattern(search.search_term), text_cache[f])}

\* C13: the hits of a search come by rising file id, and when more files
\* match than the search returns, the hits are the matching files of the
\* lowest ids; so the hits are a function of corpus and term.
C13_AscendingIds ==
    search.pc \in {"render", "done"} =>
        LET hits == {search.results[i] : i \in 1..Len(search.results)}
        IN /\ \A i \in 1..Len(search.results), j \in 1..Len(search.results) :
                 i < j => search.results[i] < search.results[j]
           /\ hits \subseteq Matching
           /\ \A f \in Matching \ hits : \A g \in hits : g < f

\* C14: no keyword is twice in custom_keywords.txt, and the file only grows
\* at its end: what it held stays as the head of what it holds.
C14_RegistryOnce ==
    /\ [](\A i \in 1..Len(registry), j \in 1..Len(registry) :
             i # j => registry[i] # registry[j])
    /\ [][/\ Len(registry') >= Len(registry)
          /\ SubSeq(registry', 1, Len(registry)) = registry]_vars

\* the 0-based offset of the first occurrence of kw in text, letters compared
\* without case
FirstMatch(text, kw) ==
    Least({p \in 0..(Len(text) - Len(kw)) :
              \A j \in 1..Len(kw) : lower(text[p + j]) = lower(kw[j])})

\* the part of the text a row's context is taken from: from CONTEXT_RADIUS
\* characters before the first match to CONTEXT_RADIUS characters after it
Window(text, kw) ==
    SubSeq(text, Max(1, FirstMatch(text, kw) - CONTEXT_RADIUS + 1),
                 Min(Len(text), FirstMatch(text, kw) + Len(kw) + CONTEXT_RADIUS))

\* w with every run of whitespace replaced by one space and none at the ends
Collapsed(w) ==
    LET idx == [i \in 1..Len(w) |-> i]
        inked == {i \in 1..Len(w) : ~isspace(w[i])}
        kept == SelectSeq(idx, LAMBDA i :
                    \/ i \in inked
                    \/ /\ i - 1 \in inked
                       /\ \E j \in inked : j > i)
    IN [k \in 1..Len(kept) |-> IF isspace(w[kept[k]]) THEN SP ELSE w[kept[k]]]

\* C15 (as stated): every row's context is the collapsed window around the
\* first match, and that window is never longer than 300 characters
C15_Window300 ==
    \A i \in 1..Len(search_results) :
        LET r == search_results[i]
            w == Window(text_cache[r.file_id], r.keyword)
        IN /\ r.context = Collapsed(w)
           /\ Len(w) <= 2 * CONTEXT_RADIUS

\* C15 (amended): every row's context is the collapsed window that reaches
\* CONTEXT_RADIUS characters to each side of the first match, clipped at the
\* ends of the text: at most 300 characters plus the length of the match
C15_WindowAroundMatch ==
    \A i \in 1..Len(search_results) :
        LET r == search_results[i]
            w == Window(text_cache[r.file_id], r.keyword)
        IN /\ r.context = Collapsed(w)
           /\ Len(w) <= 2 * CONTEXT_RADIUS + Len(r.keyword)

\* a committed row whose window has the full 300 characters around a match of
\* two characters, with whitespace that the context has lost
C15_Witness ==
    /\ sess[1].pc = "done"
    /\ \E i \in 1..Len(search_results) :
          LET r == search_results[i]
              w == Window(text_cache[r.file_id], r.keyword)
          IN /\ Len(r.keyword) = 2
             /\ Len(w) = 2 * CONTEXT_RADIUS + 2
             /\ Len(r.context) < Len(w)

\* the candidate edges of the graph that session 1 built
Candidates == gsess[1].built.all_edges

\* C16: the candidate edges are the co-occurrence rows at the threshold and
\* the rows of weight >= 1 with a VIP at an end, each stored pair once and
\* with its stored weight; an edge of the graph below the threshold has a VIP
\* at an end
C16_EdgeSelection ==
    Built =>
        /\ {Candidates[i] : i \in 1..Len(Candidates)} =
              {e \in entity_cooccurrence :
                  \/ e.file_count >= gsess[1].min_weight
                  \/ /\ e.file_count >= 1
                     /\ (e.entity_a \in vip_names \/ e.entity_b \in vip_names)}
        /\ \A i \in 1..Len(Candidates), j \in 1..Len(Candidates) :
              (/\ Candidates[i].entity_a = Candidates[j].entity_a
               /\ Candidates[i].entity_b = Candidates[j].entity_b) => i = j
        /\ \A i \in 1..Len(graph_file.edges) :
              LET edge == graph_file.edges[i]
              IN /\ [entity_a |-> edge.a, entity_b |-> edge.b,
                     file_count |-> edge.value] \in entity_cooccurrence
                 /\ \A j \in 1..Len(graph_file.edges) :
                       (edge.a = graph_file.edges[j].a /\ edge.b = graph_file.edges[j].b)
                           => i = j
                 /\ edge.value < gsess[1].min_weight
                       => (edge.a \in vip_names \/ edge.b \in vip_names)

\* a graph with an edge below the threshold, built from a table in which one
\* row is found by both queries and another by neither
C16_Witness ==
    /\ Built
    /\ \E i \in 1..Len(graph_file.edges) :
          graph_file.edges[i].value < gsess[1].min_weight
    /\ \E e \in entity_cooccurrence :
          /\ e.file_count >= gsess[1].min_weight
          /\ e.entity_a \in vip_names
    /\ \E e \in entity_cooccurrence :
          /\ e.file_count < gsess[1].min_weight
          /\ e.entity_a \notin vip_names /\ e.entity_b \notin vip_names

\* the rows the selection of session 1 counts, the file count of a name in
\* them, and the names at the threshold
Typed == typed_rows(entities, gsess[1].show_orgs)

FileCount(n) == Cardinality(files_of(Typed, n))

Eligible == {n \in names_of(Typed) : FileCount(n) >= gsess[1].min_weight}

\* C17: a node that is not a VIP has a label among the types asked for and a
\* file count at the threshold, and fewer than max_nodes names at the
\* threshold have more files than it; the graph has at most max_nodes nodes
\* and one for each VIP
C17_NodeSelection ==
    Built =>
        /\ \A n \in Nodes \ vip_names :
              /\ graph_file.nodes[n].lt \in entity_types(gsess[1].show_orgs)
              /\ graph_file.nodes[n].files = FileCount(n)
              /\ n \in Eligible
              /\ Cardinality({o \in Eligible : FileCount(o) > FileCount(n)})
                    < gsess[1].max_nodes
        /\ Cardinality(Nodes) <= gsess[1].max_nodes + Cardinality(vip_names)

\* a graph with a node that is no VIP, built when more names are at the
\* threshold than max_nodes and one of them, as prominent as that node, was
\* left out
C17_Witness ==
    /\ Built
    /\ Cardinality(Eligible) > gsess[1].max_nodes
    /\ \E n \in Nodes \ vip_names :
          \E o \in Eligible \ gsess[1].built.entity_set : FileCount(o) = FileCount(n)

\* the class of a node: the central subject before a VIP before the others
ClassOf(n) ==
    IF n \in epstein_names THEN "central" ELSE IF n \in vip_names THEN "priority"
    ELSE "ordinary"

\* C18: a node is drawn by its class alone, the central subject as a diamond
\* of size 60, a VIP as a star of size max(25, min(8 + 2 * files, 50)), any
\* other as a dot of size min(8 + 2 * files, 50) in the colour of its type;
\* within a class more files never give a smaller node, no size outside
\* 10..60, none above 50 but the central subject's
C18_NodeAttributes ==
    Built =>
        \A n \in Nodes :
            LET node == graph_file.nodes[n]
            IN /\ node.files \in {FileCount(n), Cardinality(files_of(entities, n))}
               /\ node.files >= 1
               /\ ClassOf(n) = "central" =>
                     node.shape = "diamond" /\ node.size = 60
               /\ ClassOf(n) = "priority" =>
                     /\ node.shape = "star"
                     /\ node.size = Max(25, Min(8 + 2 * node.files, 50))
               /\ ClassOf(n) = "ordinary" =>
                     /\ node.shape = "dot"
                     /\ node.size = Min(8 + 2 * node.files, 50)
                     /\ node.color = (IF node.lt = "PERSON" THEN "#e74c3c" ELSE "#3498db")
               /\ node.size >= 10 /\ node.size <= 60
               /\ ClassOf(n) # "central" => node.size <= 50
               /\ \A o \in Nodes :
                     (ClassOf(o) = ClassOf(n) /\ graph_file.nodes[o].files >= node.files)
                         => graph_file.nodes[o].size >= node.size

\* a graph with the diamond, a star larger than the smallest, a dot of the
\* largest size and a smaller dot
C18_Witness ==
    /\ Built
    /\ \E n \in Nodes : graph_file.nodes[n].shape = "diamond"
    /\ \E n \in Nodes : graph_file.nodes[n].shape = "star" /\ graph_file.nodes[n].size > 25
    /\ \E n \in Nodes : /\ graph_file.nodes[n].shape = "dot"
                        /\ graph_file.nodes[n].size = 50
                        /\ 8 + 2 * graph_file.nodes[n].files > 50
    /\ \E n \in Nodes : graph_file.nodes[n].shape = "dot" /\ graph_file.nodes[n].size < 50

\* the rows of a table whose keyword is not in K
RowsOutside(table, K) == SelectSeq(table, LAMBDA r : r.keyword \notin K)

\* the keywords of the invocation session 1 is in after a step
InvokedFor == {sess'[1].patterns[i] : i \in 1..Len(sess'[1].patterns)}

\* a press of the button with no keyword in the text area
BlankPress == sess'[1].runs # sess[1].runs /\ sess'[1].pc # "delete"

\* C19: a step of an invocation for the keywords K leaves the rows of every
\* other keyword as they were, "A" being another keyword than "a", and leaves
\* the files, their texts, the entities and their co-occurrences alone; a
\* press with no keyword leaves the rows and the registry alone
C19_Frame ==
    [][sess'[1] # sess[1] =>
          /\ RowsOutside(search_results', InvokedFor)
                = RowsOutside(search_results, InvokedFor)
          /\ RowsOutside(durable', InvokedFor) = RowsOutside(durable, InvokedFor)
          /\ UNCHANGED <<text_cache, corpus_version, tables, entities,
                         entity_cooccurrence>>
          /\ BlankPress => UNCHANGED <<search_results, durable, in_txn, registry>>]_vars

\* a second invocation, for "a", has ended and the rows that a first one
\* wrote for "A" are in the table
C19_Witness ==
    /\ sess[1].pc = "done"
    /\ sess[1].runs = 2
    /\ sess[1].patterns = << <<"a">> >>
    /\ \E i \in 1..Len(search_results) : search_results[i].keyword = <<"A">>
    /\ \E i \in 1..Len(search_results) : search_results[i].keyword = <<"a">>

\* C20: the graph a session displays, read back from graph_path, is the graph
\* that session built from its own sliders
C20_OwnGraph ==
    \A s \in Sessions :
        gsess[s].pc = "shown" => gsess[s].html = gsess[s].built.net

====
